---- MODULE Spec2Model ----
(***************************************************************************)
(* Payment callback and approval orchestration of the KG Inicis Node.js    *)
(* merchant server (app.js): the callback route                            *)
(* POST /INIstdpay_pc_return.ejs, the approval call it makes to the PG,    *)
(* the network-cancel (compensation) call, and the result it renders.      *)
(*                                                                         *)
(* Korean message literals of the source are written here in ASCII; the    *)
(* definition of each names the literal it stands for.                     *)
(***************************************************************************)
EXTENDS Integers, Sequences, FiniteSets

VARIABLES pc, body, built, calls, approvalResp, cancelResp, rendered, events,
          log, now, disconnected, pages, sent, inputs, outputs, sh

vars == <<pc, body, built, calls, approvalResp, cancelResp, rendered, events,
          log, now, disconnected, pages, sent, inputs, outputs, sh>>

\* The state of the payment server, which the repository scripts leave alone.
serverVars == <<pc, body, built, calls, approvalResp, cancelResp, rendered,
                events, log, now, disconnected, pages, sent, inputs, outputs>>

(***************************************************************************)
(* Bounds of the model.                                                    *)
(***************************************************************************)
\* The clock (new Date().getTime()) is read in 0..MaxClock.
MaxClock == 2

\* The number of GET requests served in a run.
MaxPages == 2

\* The timeout bound the calls to the PG are meant to have, in clock ticks.
TimeoutTicks == 1

\* The callbacks the state is kept for. Spec follows the callback cb1 from
\* its arrival to its end; cb2 stays idle in it.
Callbacks == {"cb1", "cb2"}

(***************************************************************************)
(* JavaScript values of a request body field, as body-parser (json and     *)
(* urlencoded with extended: true) can deliver them: a string, an absent   *)
(* field (undefined), null, an array holding one string, and an object     *)
(* that cannot be converted to a primitive (own non-callable toString).    *)
(***************************************************************************)
Undef == [t |-> "undefined", v |-> ""]

Null == [t |-> "null", v |-> ""]

Str(s) == [t |-> "string", v |-> s]

Arr1(s) == [t |-> "array", v |-> s]

NoPrim == [t |-> "object", v |-> ""]

\* ToString / ToPrimitive raises a TypeError on such a value.
ToStringThrows(x) == x.t = "object"

\* ECMAScript ToString: an array of one string joins to that string.
JsToString(x) ==
    CASE x.t = "string" -> x.v
      [] x.t = "array" -> x.v
      [] x.t = "null" -> "null"
      [] x.t = "undefined" -> "undefined"
      [] OTHER -> "[object Object]"

\* ECMAScript ToBoolean.
Truthy(x) ==
    CASE x.t = "string" -> x.v # ""
      [] x.t = "undefined" -> FALSE
      [] x.t = "null" -> FALSE
      [] OTHER -> TRUE

\* The || operator: the left operand when truthy, else the right one.
OrElse(a, b) == IF Truthy(a) THEN a ELSE b

\* The === operator on the values above (two distinct arrays or objects are
\* never identical).
StrictEq(a, b) ==
    /\ a.t = b.t
    /\ a.t \in {"string", "undefined", "null"}
    /\ a.v = b.v

\* The == operator (abstract equality): ok tells whether the comparison
\* completes, v its result. undefined and null are equal to each other; an
\* array or object compared with a string is first converted to a primitive,
\* which raises a TypeError (ok is FALSE) when the object has none.
LooseEq(a, b) ==
    CASE a.t = b.t -> [ok |-> TRUE, v |-> StrictEq(a, b)]
      [] a.t \in {"undefined", "null"} /\ b.t \in {"undefined", "null"} ->
             [ok |-> TRUE, v |-> TRUE]
      [] a.t = "array" /\ b.t = "string" -> [ok |-> TRUE, v |-> JsToString(a) = b.v]
      [] a.t = "string" /\ b.t = "array" -> [ok |-> TRUE, v |-> a.v = JsToString(b)]
      [] a.t = "object" /\ b.t = "string" -> [ok |-> FALSE, v |-> FALSE]
      [] a.t = "string" /\ b.t = "object" -> [ok |-> FALSE, v |-> FALSE]
      [] OTHER -> [ok |-> TRUE, v |-> FALSE]

Digit == <<"0", "1", "2", "3", "4", "5", "6", "7", "8", "9">>

\* Number to decimal string, as string concatenation converts a timestamp.
RECURSIVE NumToString(_)
NumToString(n) ==
    IF n < 10 THEN Digit[n + 1]
    ELSE NumToString(n \div 10) \o Digit[(n % 10) + 1]

\* crypto.createHash("sha256").update(s).digest('hex'): the digest of s,
\* kept as the hashed string under its algorithm (an ideal hash).
Sha256Hex(s) == [alg |-> "sha256", input |-> s]

(***************************************************************************)
(* Endpoint registry (properties.js).                                      *)
(***************************************************************************)
KnownIdc == {"fc", "ks", "stg"}

\* The approval URL of a data center; no result for an unknown identifier.
getAuthUrl(idc_name) ==
    IF idc_name.t = "string" /\ idc_name.v \in KnownIdc
    THEN Str("https://" \o idc_name.v \o "stdpay.inicis.com/api/payAuth")
    ELSE Undef

\* The network-cancel URL of a data center; no result for an unknown one.
getNetCancel(idc_name) ==
    IF idc_name.t = "string" /\ idc_name.v \in KnownIdc
    THEN Str("https://" \o idc_name.v \o "stdpay.inicis.com/api/netCancel")
    ELSE Undef

(***************************************************************************)
(* Result records handed to res.render('INIstdpay_pc_return.ejs', ...).    *)
(***************************************************************************)
StatusServerError == 500

\* 'URL 매칭 실패' (URL matching failed)
MsgUrlMismatch == "URL matching failed"

\* '응답 파싱 오류' (response parse error)
MsgParseError == "response parse error"

\* '승인 처리 중 오류 발생' (error while processing the approval)
MsgApprovalError == "error while processing the approval"

\* '서버 처리 오류' (server processing error)
MsgServerError == "server processing error"

Result(status, resultCode, resultMsg, tid, MOID, TotPrice, goodName, applDate, applTime) ==
    [status |-> status, resultCode |-> resultCode, resultMsg |-> resultMsg,
     tid |-> tid, MOID |-> MOID, TotPrice |-> TotPrice, goodName |-> goodName,
     applDate |-> applDate, applTime |-> applTime]

\* The declined branch: the callback's own fields.
DeclinedResult(b) ==
    Result(200, b.resultCode, b.resultMsg, b.tid, b.MOID, b.TotPrice,
           b.goodName, b.applDate, b.applTime)

\* The URL mismatch branch.
MismatchResult(b) ==
    Result(200, Str("9999"), Str(MsgUrlMismatch), Str("N/A"),
           OrElse(b.oid, Str("N/A")), OrElse(b.price, Str("N/A")),
           Str("N/A"), Str("N/A"), Str("N/A"))

\* The TypeError of a conversion of a value that has no primitive form.
ConversionErrorText == "TypeError: Cannot convert object to primitive value"

\* An outer catch that renders without setting the status.
ServerErrorResult_Status200 ==
    Result(200, Str("9999"), Str(MsgServerError), Str("N/A"),
           Str("N/A"), Str("N/A"), Str("N/A"), Str("N/A"), Str("N/A"))

\* The outer catch: status 500.
ServerErrorResult ==
    Result(StatusServerError, Str("9999"), Str(MsgServerError), Str("N/A"),
           Str("N/A"), Str("N/A"), Str("N/A"), Str("N/A"), Str("N/A"))

\* ParsedResult taking tid from the callback (req.body.tid) instead of the
\* approval response.
ParsedResult_CallbackTid(result, b) ==
    Result(200,
           OrElse(result.resultCode, Str("9999")),
           OrElse(result.resultMsg, Str(MsgParseError)),
           OrElse(b.tid, Str("N/A")),
           OrElse(result.MOID, b.oid),
           OrElse(result.TotPrice, b.price),
           OrElse(result.goodName, Str("N/A")),
           OrElse(result.applDate, Str("N/A")),
           OrElse(result.applTime, Str("N/A")))

\* The try branch of the approval response callback: each field of the
\* parsed response, or its fallback.
ParsedResult(result, b) ==
    Result(200,
           OrElse(result.resultCode, Str("9999")),
           OrElse(result.resultMsg, Str(MsgParseError)),
           OrElse(result.tid, Str("N/A")),
           OrElse(result.MOID, b.oid),
           OrElse(result.TotPrice, b.price),
           OrElse(result.goodName, Str("N/A")),
           OrElse(result.applDate, Str("N/A")),
           OrElse(result.applTime, Str("N/A")))

\* The catch branch of the approval response callback.
ApprovalErrorResult(b) ==
    Result(200, Str("9999"), Str(MsgApprovalError), Str("N/A"),
           OrElse(b.oid, Str("N/A")), OrElse(b.price, Str("N/A")),
           Str("N/A"), Str("N/A"), Str("N/A"))

(***************************************************************************)
(* The callback payload (req.body).                                        *)
(***************************************************************************)
FcAuthUrl == "https://fcstdpay.inicis.com/api/payAuth"

KsAuthUrl == "https://ksstdpay.inicis.com/api/payAuth"

FcNetCancelUrl == "https://fcstdpay.inicis.com/api/netCancel"

ForeignUrl == "https://pg.example.test/api"

ResultCodeInputs == {Str("0000"), Str("9001"), Undef, Arr1("0000")}

IdcInputs == {Str("fc"), Str("ks"), Str("xx"), NoPrim}

AuthUrlInputs ==
    {Str(FcAuthUrl), Str(KsAuthUrl), Str(ForeignUrl), Undef, Null,
     Arr1(FcAuthUrl), NoPrim}

NetCancelUrlInputs ==
    {Str(FcNetCancelUrl), Str(ForeignUrl), Undef, Arr1(FcNetCancelUrl), NoPrim}

AuthTokenInputs == {Str("tokA"), NoPrim}

OidInputs == {Str("INIpayTest_01234"), Undef}

\* The result fields a declining widget sends along: all there, or none.
DeclineInputs ==
    {[resultMsg |-> Str("cancelled by buyer"), tid |-> Str("StdpayCARD01"),
      MOID |-> Str("INIpayTest_01234"), TotPrice |-> Str("1000"),
      goodName |-> Str("goods"), applDate |-> Str("20250101"),
      applTime |-> Str("120000")],
     [resultMsg |-> Undef, tid |-> Undef, MOID |-> Undef, TotPrice |-> Undef,
      goodName |-> Undef, applDate |-> Undef, applTime |-> Undef]}

\* A POST that carries nothing: body-parser leaves req.body as {}.
NoBody ==
    [resultCode |-> Undef, resultMsg |-> Undef, tid |-> Undef, MOID |-> Undef,
     TotPrice |-> Undef, goodName |-> Undef, applDate |-> Undef,
     applTime |-> Undef, mid |-> Undef, authToken |-> Undef,
     netCancelUrl |-> Undef, authUrl |-> Undef, idc_name |-> Undef,
     oid |-> Undef, price |-> Undef]

\* Object.keys(req.body).length > 0
HasKeys(b) == \E f \in DOMAIN b : b[f] # Undef

Payloads ==
    {[resultCode |-> rc, resultMsg |-> d.resultMsg, tid |-> d.tid,
      MOID |-> d.MOID, TotPrice |-> d.TotPrice, goodName |-> d.goodName,
      applDate |-> d.applDate, applTime |-> d.applTime,
      mid |-> Str("INIpayTest"), authToken |-> tok, netCancelUrl |-> nc,
      authUrl |-> au, idc_name |-> idc, oid |-> oid, price |-> Str("1000")] :
        rc \in ResultCodeInputs, d \in DeclineInputs, tok \in AuthTokenInputs,
        nc \in NetCancelUrlInputs, au \in AuthUrlInputs, idc \in IdcInputs,
        oid \in OidInputs}
    \cup {NoBody}

\* The payloads of two callbacks handled at the same time: two checkouts
\* (two tokens), known data centers, a netCancelUrl that matches, is foreign
\* or has no primitive form, a declined payment and a token that has no
\* string form.
ConcPayloads ==
    {[resultCode |-> Str("0000"), resultMsg |-> Undef, tid |-> Undef,
      MOID |-> Undef, TotPrice |-> Undef, goodName |-> Undef,
      applDate |-> Undef, applTime |-> Undef,
      mid |-> Str("INIpayTest"), authToken |-> Str(tok), netCancelUrl |-> nc,
      authUrl |-> Str(FcAuthUrl), idc_name |-> Str(idc),
      oid |-> Str("INIpayTest_01234"), price |-> Str("1000")] :
        tok \in {"tokA", "tokB"},
        nc \in {Str(FcNetCancelUrl), Str(ForeignUrl), NoPrim},
        idc \in {"fc", "ks"}}
    \cup {b \in Payloads :
            /\ b.idc_name = Str("fc") /\ b.authUrl = Str(FcAuthUrl)
            /\ b.netCancelUrl = Str(FcNetCancelUrl)
            /\ b.oid = Str("INIpayTest_01234")
            /\ \/ b.resultCode = Str("9001") /\ b.authToken = Str("tokA")
                  /\ b.tid # Undef
               \/ b.resultCode = Str("0000") /\ b.authToken = NoPrim
                  /\ b.tid = Undef}

(***************************************************************************)
(* The synchronous part of the callback handler.                           *)
(***************************************************************************)
\* process.env.SIGN_KEY || "SU5JTElURV9UUklQTEVERVNfS0VZU1RS"
SignKey == "SU5JTElURV9UUklQTEVERVNfS0VZU1RS"

\* IsSuccess with the comparison written ==, which converts its operand.
IsSuccess_Loose(b) == LooseEq(b.resultCode, Str("0000")).v

\* if (req.body.resultCode === "0000")
IsSuccess(b) == StrictEq(b.resultCode, Str("0000"))

\* The template literals that log idc_name and authUrl and the string
\* concatenations of authToken raise a TypeError on a value that has no
\* primitive form; the outer catch takes it.
BuildThrows(b) ==
    \/ ToStringThrows(b.idc_name)
    \/ ToStringThrows(b.authUrl)
    \/ ToStringThrows(b.authToken)

\* An approval signature that leaves the timestamp out.
ApprovalSignature_TokenOnly(authToken, timestamp) ==
    Sha256Hex("authToken=" \o JsToString(authToken))

\* SHA256 over authToken, timestamp
ApprovalSignature(authToken, timestamp) ==
    Sha256Hex("authToken=" \o JsToString(authToken)
              \o "&timestamp=" \o NumToString(timestamp))

\* A verification computed like the signature, without the key.
ApprovalVerification_AsSignature(authToken, signKey, timestamp) ==
    ApprovalSignature(authToken, timestamp)

\* SHA256 over authToken, signKey, timestamp
ApprovalVerification(authToken, signKey, timestamp) ==
    Sha256Hex("authToken=" \o JsToString(authToken) \o "&signKey=" \o signKey
              \o "&timestamp=" \o NumToString(timestamp))

\* The pattern of the four digests: SHA256 over "name=value" of the fields
\* in their order, joined by "&".
RECURSIVE JoinFields(_)
JoinFields(fields) ==
    IF Len(fields) = 0 THEN ""
    ELSE IF Len(fields) = 1 THEN fields[1][1] \o "=" \o fields[1][2]
    ELSE fields[1][1] \o "=" \o fields[1][2] \o "&" \o JoinFields(Tail(fields))

Digest(fields) == Sha256Hex(JoinFields(fields))

\* SHA256 over oid, price, timestamp
RequestSignature(oid, price, timestamp) ==
    Sha256Hex("oid=" \o oid \o "&price=" \o price
              \o "&timestamp=" \o NumToString(timestamp))

\* A request verification with the key as its last field.
RequestVerification_KeyLast(oid, price, signKey, timestamp) ==
    Sha256Hex("oid=" \o oid \o "&price=" \o price
              \o "&timestamp=" \o NumToString(timestamp) \o "&signKey=" \o signKey)

\* SHA256 over oid, price, signKey, timestamp
RequestVerification(oid, price, signKey, timestamp) ==
    Sha256Hex("oid=" \o oid \o "&price=" \o price \o "&signKey=" \o signKey
              \o "&timestamp=" \o NumToString(timestamp))

\* process.env.MERCHANT_ID || "INIpayTest"
MerchantId == "INIpayTest"

\* Page parameters that hand the key itself to the page in place of mKey.
PageParams_ClearKey(timestamp) ==
    [mid |-> MerchantId, oid |-> "INIpayTest_01234", price |-> "1000",
     timestamp |-> timestamp, mKey |-> [alg |-> "none", input |-> SignKey],
     use_chkfake |-> "Y",
     signature |-> RequestSignature("INIpayTest_01234", "1000", timestamp),
     verification |->
         RequestVerification("INIpayTest_01234", "1000", SignKey, timestamp)]

\* Page parameters whose mKey hashes "signKey=<key>" like the other digests.
PageParams_FieldKey(timestamp) ==
    [mid |-> MerchantId, oid |-> "INIpayTest_01234", price |-> "1000",
     timestamp |-> timestamp, mKey |-> Digest(<<<<"signKey", SignKey>>>>),
     use_chkfake |-> "Y",
     signature |-> RequestSignature("INIpayTest_01234", "1000", timestamp),
     verification |->
         RequestVerification("INIpayTest_01234", "1000", SignKey, timestamp)]

\* res.render("INIstdpay_pc_req.html", { mid, oid, price, timestamp, mKey,
\* use_chkfake, signature, verification })
PageParams(timestamp) ==
    [mid |-> MerchantId, oid |-> "INIpayTest_01234", price |-> "1000",
     timestamp |-> timestamp, mKey |-> Sha256Hex(SignKey),
     use_chkfake |-> "Y",
     signature |-> RequestSignature("INIpayTest_01234", "1000", timestamp),
     verification |->
         RequestVerification("INIpayTest_01234", "1000", SignKey, timestamp)]

\* let options = { mid, authToken, timestamp, signature, verification,
\* charset, format }
Options(b, timestamp) ==
    [mid |-> b.mid, authToken |-> b.authToken, timestamp |-> timestamp,
     signature |-> ApprovalSignature(b.authToken, timestamp),
     verification |-> ApprovalVerification(b.authToken, SignKey, timestamp),
     charset |-> "UTF-8", format |-> "JSON"]

\* if (authUrl == authUrl2): an authUrl that has no primitive form never gets
\* here, the template literal that logs it has raised before.
UrlCheck(b) == LooseEq(b.authUrl, getAuthUrl(b.idc_name)).v

\* ApprovalCall dialing the URL the callback carries (uri: authUrl).
ApprovalCall_CallbackUrl(b, options) ==
    [kind |-> "approval", uri |-> b.authUrl, form |-> options]

\* request.post({method: 'POST', uri: authUrl2, form: options, json: true})
ApprovalCall(b, options) ==
    [kind |-> "approval", uri |-> getAuthUrl(b.idc_name), form |-> options]

\* if (netCancelUrl == netCancelUrl2) raises a TypeError: nothing has
\* converted netCancelUrl before, and the catch block is in no try.
NetCancelCheckThrows(b) == ~LooseEq(b.netCancelUrl, getNetCancel(b.idc_name)).ok

\* if (netCancelUrl == netCancelUrl2)
NetCancelCheck(b) == LooseEq(b.netCancelUrl, getNetCancel(b.idc_name)).v

\* A network-cancel call sent to the URL the callback carries.
NetCancelCall_CallbackUrl(b, options) ==
    [kind |-> "netCancel", uri |-> b.netCancelUrl, form |-> options]

\* A network-cancel call whose fields are built again, with a later timestamp.
NetCancelCall_Rebuilt(b, options) ==
    [kind |-> "netCancel", uri |-> getNetCancel(b.idc_name),
     form |-> Options(b, options.timestamp + 1)]

\* request.post({method: 'POST', uri: netCancelUrl2, form: options, json: true})
NetCancelCall(b, options) ==
    [kind |-> "netCancel", uri |-> getNetCancel(b.idc_name), form |-> options]

(***************************************************************************)
(* What the PG answers to the approval call, and what the HTTP client      *)
(* (request, with json: true) hands to the response callback.              *)
(***************************************************************************)
PgFields(resultCode, resultMsg, tid, MOID, TotPrice, goodName, applDate, applTime) ==
    [resultCode |-> resultCode, resultMsg |-> resultMsg, tid |-> tid,
     MOID |-> MOID, TotPrice |-> TotPrice, goodName |-> goodName,
     applDate |-> applDate, applTime |-> applTime]

\* An object none of whose fields is there; also what a property read of a
\* string gives for each of these names.
NoFields == PgFields(Undef, Undef, Undef, Undef, Undef, Undef, Undef, Undef)

PgResultCodes == {Undef, Str(""), Str("0000"), Str("R101")}

PgTids == {Undef, Str("T1")}

\* The JSON objects the PG may answer with: the other fields all there, or
\* none of them.
PgObjects ==
    {PgFields(rc, Str("pg message"), tid, Str("PGOID"), Str("2000"),
              Str("pg goods"), Str("20250102"), Str("130000")) :
        rc \in PgResultCodes, tid \in PgTids}
    \cup {PgFields(rc, Undef, tid, Undef, Undef, Undef, Undef, Undef) :
        rc \in PgResultCodes, tid \in PgTids}

\* A completed approval call: a transport error, or a response whose body is
\* a JSON object, the JSON text null, a text that is not JSON, or empty.
TransportError == [err |-> TRUE, kind |-> "none", obj |-> NoFields]

\* The error request hands over, before request.post returns, for a call
\* whose uri is undefined.
UriRequiredError == [err |-> TRUE, kind |-> "noUri", obj |-> NoFields]

Responses ==
    {[err |-> FALSE, kind |-> "jsonObject", obj |-> o] : o \in PgObjects}
    \cup {[err |-> FALSE, kind |-> k, obj |-> NoFields] :
            k \in {"jsonNull", "notJson", "empty"}}

\* What the PG answers to a network-cancel call, when it answers.
NetCancelOk ==
    [err |-> FALSE, kind |-> "jsonObject",
     obj |-> PgFields(Str("0000"), Str("cancelled"), Undef, Undef, Undef,
                      Undef, Undef, Undef)]

CancelOutcomes ==
    {TransportError, NetCancelOk,
     [err |-> FALSE, kind |-> "notJson", obj |-> NoFields]}

\* The answers to the approval call of two callbacks handled at the same time.
ConcResponses ==
    {TransportError,
     [err |-> FALSE, kind |-> "empty", obj |-> NoFields],
     [err |-> FALSE, kind |-> "jsonObject",
      obj |-> PgFields(Str("0000"), Str("pg message"), Str("T1"),
                       Str("PGOID"), Str("2000"), Str("pg goods"),
                       Str("20250102"), Str("130000"))],
     [err |-> FALSE, kind |-> "jsonObject",
      obj |-> PgFields(Undef, Undef, Undef, Undef, Undef, Undef, Undef, Undef)]}

\* request refuses a call that has no uri with an error; any other call
\* ends in a transport error or a response.
Outcomes(call) ==
    IF call.uri = Undef THEN {UriRequiredError} ELSE {TransportError} \cup Responses

\* The same for a network-cancel call.
NetCancelOutcomes(call) ==
    IF call.uri = Undef THEN {UriRequiredError} ELSE CancelOutcomes

\* request calls the callback of a call it refuses inside request.post.
Refused(call) == call.uri = Undef

\* json: true -- the body is parsed as JSON when it can be, and is left as
\* the raw string when it cannot; an empty body is undefined.
RequestJsonBody(r) ==
    CASE r.kind = "jsonObject" -> [t |-> "object", obj |-> r.obj]
      [] r.kind = "jsonNull" -> [t |-> "null", obj |-> NoFields]
      [] r.kind = "notJson" -> [t |-> "string", obj |-> NoFields]
      [] OTHER -> [t |-> "undefined", obj |-> NoFields]

\* let jsoncode = (err) ? err : JSON.stringify(body): the Error object, or
\* the JSON text of body; JSON.stringify(undefined) is undefined.
JsonCode(r) ==
    IF r.err THEN [src |-> "error", val |-> RequestJsonBody(r)]
    ELSE IF RequestJsonBody(r).t = "undefined"
         THEN [src |-> "undefined", val |-> RequestJsonBody(r)]
         ELSE [src |-> "json", val |-> RequestJsonBody(r)]

\* JSON.parse(jsoncode) raises a SyntaxError on the text of an Error object
\* ("Error: ...") and on "undefined".
JsonParseThrows(jsoncode) == jsoncode.src # "json"

\* JSON.parse of the text JSON.stringify gave: the value again.
JsonParse(jsoncode) == jsoncode.val

\* Reading result.resultCode raises a TypeError when result is null.
PropertyReadThrows(result) == result.t = "null"

\* The fields read from result: those of an object; none from a string.
ResultFields(result) == IF result.t = "object" THEN result.obj ELSE NoFields

\* Whether the try block of the response callback ends in its catch.
Caught(r) ==
    \/ JsonParseThrows(JsonCode(r))
    \/ PropertyReadThrows(JsonParse(JsonCode(r)))

(***************************************************************************)
(* What console.log / console.error write while a callback is handled: one *)
(* entry per statement, named by its source line, with the value it prints *)
(* (the empty string for a statement that prints a fixed message only).    *)
(***************************************************************************)
LogLine(line, val) == [line |-> line, val |-> val]

\* The Error the HTTP client reports for a call that got no response, and
\* for a call it refuses.
TransportErrorText(r) ==
    IF r.kind = "noUri" THEN "Error: options.uri is a required argument"
    ELSE "Error: request failed"

\* The SyntaxError of JSON.parse, and the TypeError of a read from null.
ParseErrorText(r) ==
    IF JsonParseThrows(JsonCode(r))
    THEN "SyntaxError: Unexpected token in JSON at position 0"
    ELSE "TypeError: Cannot read properties of null (reading 'resultCode')"

\* The approval response callback up to the network-cancel check or the
\* render: the parsed result is logged before it is read.
ApprovalResponseLog(b, r) ==
    <<LogLine(111, Str(""))>>
    \o (IF r.err THEN <<LogLine(113, Str(TransportErrorText(r)))>> ELSE <<>>)
    \o <<LogLine(115, Str(IF r.err THEN "No response" ELSE "statusCode")),
         LogLine(116, RequestJsonBody(r))>>
    \o (IF ~JsonParseThrows(JsonCode(r))
        THEN <<LogLine(122, JsonParse(JsonCode(r)))>>
        ELSE <<>>)
    \o (IF Caught(r)
        THEN <<LogLine(135, Str(ParseErrorText(r))),
               LogLine(139, getNetCancel(b.idc_name))>>
        ELSE <<>>)

\* The network-cancel response callback: let result = (err) ? err :
\* JSON.stringify(body); console.log(result).
NetCancelResponseLog(r) ==
    <<LogLine(144, IF r.err THEN Str(TransportErrorText(r)) ELSE RequestJsonBody(r))>>

\* The logging middleware, which every request that no static file answers
\* passes: the method and the URL as requested, then the body when it has
\* keys.
MiddlewareLog(method, url, b) ==
    <<LogLine(22, Str(method \o " " \o url))>>
    \o (IF HasKeys(b) THEN <<LogLine(24, b)>> ELSE <<>>)

\* The logging middleware, then the handler up to its branch.
HandlerLog(b, timestamp) ==
    MiddlewareLog("POST", "/INIstdpay_pc_return.ejs", b)
    \o <<LogLine(53, Str("")), LogLine(54, b)>>
    \o (IF ~IsSuccess(b)
        THEN <<LogLine(176, b.resultCode)>>
        ELSE <<LogLine(58, Str(""))>>
             \o (IF ToStringThrows(b.idc_name)
                 THEN <<LogLine(189, Str(ConversionErrorText))>>
                 ELSE <<LogLine(82, b.idc_name)>>
                      \o (IF ToStringThrows(b.authUrl)
                          THEN <<LogLine(189, Str(ConversionErrorText))>>
                          ELSE <<LogLine(83, b.authUrl),
                                 LogLine(84, getAuthUrl(b.idc_name))>>
                               \o (IF ToStringThrows(b.authToken)
                                   THEN <<LogLine(189, Str(ConversionErrorText))>>
                                   ELSE <<LogLine(104, Options(b, timestamp)),
                                          LogLine(IF UrlCheck(b) THEN 107 ELSE 162,
                                                  Str(""))>>))))

\* What one run of the handler writes: when request refuses the approval
\* call, the response callback, and that of the network-cancel call it may
\* send, have run before request.post returns.
CallbackLog(b, timestamp) ==
    HandlerLog(b, timestamp)
    \o (IF IsSuccess(b) /\ ~BuildThrows(b) /\ UrlCheck(b)
           /\ Refused(ApprovalCall(b, Options(b, timestamp)))
        THEN ApprovalResponseLog(b, UriRequiredError)
             \o (IF NetCancelCheck(b)
                 THEN NetCancelResponseLog(UriRequiredError)
                 ELSE <<>>)
        ELSE <<>>)

\* The handling of a callback whose approval call request refuses: the
\* response callback runs inside request.post with the error, its catch
\* block sends the network cancel when netCancelUrl is undefined as well
\* (refused the same way, its callback run at once) and renders the page.
RefusedRun(b, options) ==
    [calls |-> <<ApprovalCall(b, options)>>
               \o (IF NetCancelCheck(b) THEN <<NetCancelCall(b, options)>> ELSE <<>>),
     approvalResp |-> <<UriRequiredError>>,
     cancelResp |-> IF NetCancelCheck(b) THEN <<UriRequiredError>> ELSE <<>>,
     events |-> <<"received", "optionsBuilt", "urlMatched", "approvalIssued",
                  "approvalCompleted">>
                \o (IF NetCancelCheck(b)
                    THEN <<"cancelIssued", "cancelCompleted">> ELSE <<>>)
                \o <<"rendered">>,
     rendered |-> <<ApprovalErrorResult(b)>>]

(***************************************************************************)
(* State and actions.                                                      *)
(***************************************************************************)
TypeOK ==
    /\ pc \in [Callbacks -> {"idle", "approving", "cancelling", "done", "thrown", "lost"}]
    /\ now \in 0..MaxClock
    /\ \A c \in Callbacks :
        /\ Len(built[c]) <= 1
        /\ Len(approvalResp[c]) <= 1
        /\ Len(cancelResp[c]) <= 1
    /\ disconnected \in [Callbacks -> BOOLEAN]
    /\ Len(pages) + Len(sent) <= MaxPages

\* The server is up and nothing has been requested.
Idle ==
    /\ pc = [c \in Callbacks |-> "idle"]
    /\ body = [c \in Callbacks |-> NoBody]
    /\ built = [c \in Callbacks |-> <<>>]
    /\ calls = [c \in Callbacks |-> <<>>]
    /\ approvalResp = [c \in Callbacks |-> <<>>]
    /\ cancelResp = [c \in Callbacks |-> <<>>]
    /\ rendered = [c \in Callbacks |-> <<>>]
    /\ events = [c \in Callbacks |-> <<>>]
    /\ log = [c \in Callbacks \cup {"page"} |-> <<>>]
    /\ now = 0
    /\ disconnected = [c \in Callbacks |-> FALSE]
    /\ pages = <<>>
    /\ sent = <<>>

\* No repository script is running.
NoScript == [pc |-> "off"]

Init ==
    /\ Idle
    /\ inputs = [kind |-> "none"]
    /\ outputs = <<>>
    /\ sh = NoScript

(***************************************************************************)
(* The hashed strings as functions of their inputs: the inputs are drawn   *)
(* at the start, a step computes the digests as the handlers do.           *)
(***************************************************************************)
\* authToken is whatever string the callback carries: it may hold "&", "="
\* and the names of the fields that follow it in the hashed string.
TokenInputValues ==
    {"tokA", "tokA&timestamp=1", "a=b",
     "tokA&signKey=" \o SignKey \o "&timestamp=1"}

\* Two (authToken, timestamp) pairs.
ApprovalSignatureInputs ==
    {[kind |-> "tokens",
      a |-> [authToken |-> k1, timestamp |-> t1],
      b |-> [authToken |-> k2, timestamp |-> t2]] :
        k1 \in TokenInputValues, k2 \in TokenInputValues,
        t1 \in 0..MaxClock, t2 \in 0..MaxClock}

\* Two (oid, price, timestamp) triples of the payment request page: oid and
\* price are the literals of the page handler, the timestamp is the clock.
SignatureInputs ==
    {[kind |-> "pair",
      a |-> [oid |-> "INIpayTest_01234", price |-> "1000", timestamp |-> t1],
      b |-> [oid |-> "INIpayTest_01234", price |-> "1000", timestamp |-> t2]] :
        t1 \in 0..MaxClock, t2 \in 0..MaxClock}

InitDigest ==
    /\ Idle
    /\ inputs \in SignatureInputs \cup ApprovalSignatureInputs
    /\ outputs = <<>>
    /\ sh = NoScript

\* The signature and the verification of the payment request page, for each
\* of the two triples.
ApplySignature ==
    /\ inputs.kind = "pair"
    /\ outputs = <<>>
    /\ outputs' =
          <<RequestSignature(inputs.a.oid, inputs.a.price, inputs.a.timestamp),
            RequestSignature(inputs.b.oid, inputs.b.price, inputs.b.timestamp),
            RequestVerification(inputs.a.oid, inputs.a.price, SignKey,
                                inputs.a.timestamp),
            RequestVerification(inputs.b.oid, inputs.b.price, SignKey,
                                inputs.b.timestamp)>>
    /\ UNCHANGED <<pc, body, built, calls, approvalResp, cancelResp, rendered,
                   events, log, now, disconnected, pages, sent, inputs, sh>>

\* The signature and the verification of the approval request, for each of
\* the two pairs.
ApplyApprovalSignature ==
    /\ inputs.kind = "tokens"
    /\ outputs = <<>>
    /\ outputs' =
          <<ApprovalSignature(Str(inputs.a.authToken), inputs.a.timestamp),
            ApprovalSignature(Str(inputs.b.authToken), inputs.b.timestamp),
            ApprovalVerification(Str(inputs.a.authToken), SignKey,
                                 inputs.a.timestamp),
            ApprovalVerification(Str(inputs.b.authToken), SignKey,
                                 inputs.b.timestamp)>>
    /\ UNCHANGED <<pc, body, built, calls, approvalResp, cancelResp, rendered,
                   events, log, now, disconnected, pages, sent, inputs, sh>>

NextDigest ==
    \/ ApplySignature
    \/ ApplyApprovalSignature

SpecDigest == InitDigest /\ [][NextDigest]_vars

\* The Node process has ended: an exception was thrown that nothing catches
\* (no try around it, no 'uncaughtException' listener), and nothing in the
\* repository starts the server again.
Down == \E c \in Callbacks : pc[c] = "thrown"

\* The clock advances.
Tick ==
    /\ now < MaxClock
    /\ UNCHANGED <<disconnected, pages, sent, inputs, outputs, sh>>
    /\ now' = now + 1
    /\ UNCHANGED <<pc, body, built, calls, approvalResp, cancelResp, rendered,
                   events, log>>

\* A handler that sends a network cancel when it rejects the callback.
Callback_CancelOnMismatch(c, b) ==
    /\ ~Down
    /\ pc[c] = "idle"
    /\ UNCHANGED <<disconnected, pages, sent, inputs, outputs, sh>>
    /\ body' = [body EXCEPT ![c] = b]
    /\ log' = [log EXCEPT ![c] = CallbackLog(b, now)]
    /\ UNCHANGED now
    /\ IF ~IsSuccess(b)
       THEN /\ rendered' = [rendered EXCEPT ![c] = Append(@, DeclinedResult(b))]
            /\ events' = [events EXCEPT ![c] = <<"received", "declined", "rendered">>]
            /\ pc' = [pc EXCEPT ![c] = "done"]
            /\ UNCHANGED <<built, calls, approvalResp, cancelResp>>
       ELSE IF BuildThrows(b)
       THEN /\ rendered' = [rendered EXCEPT ![c] = Append(@, ServerErrorResult)]
            /\ events' = [events EXCEPT ![c] = <<"received", "threw", "rendered">>]
            /\ pc' = [pc EXCEPT ![c] = "done"]
            /\ UNCHANGED <<built, calls, approvalResp, cancelResp>>
       ELSE /\ built' = [built EXCEPT ![c] = <<Options(b, now)>>]
            /\ IF UrlCheck(b)
               THEN IF Refused(ApprovalCall(b, Options(b, now)))
                    THEN LET run == RefusedRun(b, Options(b, now))
                         IN  /\ calls' = [calls EXCEPT ![c] = run.calls]
                             /\ approvalResp' = [approvalResp EXCEPT ![c] = run.approvalResp]
                             /\ cancelResp' = [cancelResp EXCEPT ![c] = run.cancelResp]
                             /\ events' = [events EXCEPT ![c] = run.events]
                             /\ rendered' = [rendered EXCEPT ![c] = run.rendered]
                             /\ pc' = [pc EXCEPT ![c] = "done"]
                    ELSE /\ calls' = [calls EXCEPT ![c] =
                                         Append(@, ApprovalCall(b, Options(b, now)))]
                         /\ events' = [events EXCEPT ![c] =
                                         <<"received", "optionsBuilt", "urlMatched",
                                           "approvalIssued">>]
                         /\ pc' = [pc EXCEPT ![c] = "approving"]
                         /\ UNCHANGED <<approvalResp, cancelResp>>
                         /\ UNCHANGED rendered
               ELSE /\ rendered' = [rendered EXCEPT ![c] = Append(@, MismatchResult(b))]
                    /\ events' = [events EXCEPT ![c] =
                                    <<"received", "optionsBuilt", "urlMismatch",
                                      "rendered">>]
                    /\ pc' = [pc EXCEPT ![c] = "done"]
                    /\ calls' = [calls EXCEPT ![c] =
                                    Append(@, NetCancelCall(b, Options(b, now)))]
                    /\ UNCHANGED <<approvalResp, cancelResp>>

\* A handler that renders right after issuing the approval call, outside the
\* response callback.
Callback_RenderEarly(c, b) ==
    /\ ~Down
    /\ pc[c] = "idle"
    /\ UNCHANGED <<disconnected, pages, sent, inputs, outputs, sh>>
    /\ body' = [body EXCEPT ![c] = b]
    /\ log' = [log EXCEPT ![c] = CallbackLog(b, now)]
    /\ UNCHANGED now
    /\ IF ~IsSuccess(b)
       THEN /\ rendered' = [rendered EXCEPT ![c] = Append(@, DeclinedResult(b))]
            /\ events' = [events EXCEPT ![c] = <<"received", "declined", "rendered">>]
            /\ pc' = [pc EXCEPT ![c] = "done"]
            /\ UNCHANGED <<built, calls, approvalResp, cancelResp>>
       ELSE IF BuildThrows(b)
       THEN /\ rendered' = [rendered EXCEPT ![c] = Append(@, ServerErrorResult)]
            /\ events' = [events EXCEPT ![c] = <<"received", "threw", "rendered">>]
            /\ pc' = [pc EXCEPT ![c] = "done"]
            /\ UNCHANGED <<built, calls, approvalResp, cancelResp>>
       ELSE /\ built' = [built EXCEPT ![c] = <<Options(b, now)>>]
            /\ IF UrlCheck(b)
               THEN IF Refused(ApprovalCall(b, Options(b, now)))
                    THEN LET run == RefusedRun(b, Options(b, now))
                         IN  /\ calls' = [calls EXCEPT ![c] = run.calls]
                             /\ approvalResp' = [approvalResp EXCEPT ![c] = run.approvalResp]
                             /\ cancelResp' = [cancelResp EXCEPT ![c] = run.cancelResp]
                             /\ events' = [events EXCEPT ![c] = run.events]
                             /\ rendered' = [rendered EXCEPT ![c] = run.rendered]
                             /\ pc' = [pc EXCEPT ![c] = "done"]
                    ELSE /\ calls' = [calls EXCEPT ![c] =
                                         Append(@, ApprovalCall(b, Options(b, now)))]
                         /\ events' = [events EXCEPT ![c] =
                                         <<"received", "optionsBuilt", "urlMatched",
                                           "approvalIssued", "rendered">>]
                         /\ pc' = [pc EXCEPT ![c] = "approving"]
                         /\ UNCHANGED <<approvalResp, cancelResp>>
                         /\ rendered' = [rendered EXCEPT ![c] =
                                            Append(@, ApprovalErrorResult(b))]
               ELSE /\ rendered' = [rendered EXCEPT ![c] = Append(@, MismatchResult(b))]
                    /\ events' = [events EXCEPT ![c] =
                                    <<"received", "optionsBuilt", "urlMismatch",
                                      "rendered">>]
                    /\ pc' = [pc EXCEPT ![c] = "done"]
                    /\ UNCHANGED <<calls, approvalResp, cancelResp>>

\* app.post("/INIstdpay_pc_return.ejs"): the handler up to its first render
\* or up to the approval call it hands to the HTTP client.
Callback(c, b) ==
    /\ ~Down
    /\ pc[c] = "idle"
    /\ UNCHANGED <<disconnected, pages, sent, inputs, outputs, sh>>
    /\ body' = [body EXCEPT ![c] = b]
    /\ log' = [log EXCEPT ![c] = CallbackLog(b, now)]
    /\ UNCHANGED now
    /\ IF ~IsSuccess(b)
       THEN /\ rendered' = [rendered EXCEPT ![c] = Append(@, DeclinedResult(b))]
            /\ events' = [events EXCEPT ![c] = <<"received", "declined", "rendered">>]
            /\ pc' = [pc EXCEPT ![c] = "done"]
            /\ UNCHANGED <<built, calls, approvalResp, cancelResp>>
       ELSE IF BuildThrows(b)
       THEN /\ rendered' = [rendered EXCEPT ![c] = Append(@, ServerErrorResult)]
            /\ events' = [events EXCEPT ![c] = <<"received", "threw", "rendered">>]
            /\ pc' = [pc EXCEPT ![c] = "done"]
            /\ UNCHANGED <<built, calls, approvalResp, cancelResp>>
       ELSE /\ built' = [built EXCEPT ![c] = <<Options(b, now)>>]
            /\ IF UrlCheck(b)
               THEN IF Refused(ApprovalCall(b, Options(b, now)))
                    THEN LET run == RefusedRun(b, Options(b, now))
                         IN  /\ calls' = [calls EXCEPT ![c] = run.calls]
                             /\ approvalResp' = [approvalResp EXCEPT ![c] = run.approvalResp]
                             /\ cancelResp' = [cancelResp EXCEPT ![c] = run.cancelResp]
                             /\ events' = [events EXCEPT ![c] = run.events]
                             /\ rendered' = [rendered EXCEPT ![c] = run.rendered]
                             /\ pc' = [pc EXCEPT ![c] = "done"]
                    ELSE /\ calls' = [calls EXCEPT ![c] =
                                         Append(@, ApprovalCall(b, Options(b, now)))]
                         /\ events' = [events EXCEPT ![c] =
                                         <<"received", "optionsBuilt", "urlMatched",
                                           "approvalIssued">>]
                         /\ pc' = [pc EXCEPT ![c] = "approving"]
                         /\ UNCHANGED <<approvalResp, cancelResp>>
                         /\ UNCHANGED rendered
               ELSE /\ rendered' = [rendered EXCEPT ![c] = Append(@, MismatchResult(b))]
                    /\ events' = [events EXCEPT ![c] =
                                    <<"received", "optionsBuilt", "urlMismatch",
                                      "rendered">>]
                    /\ pc' = [pc EXCEPT ![c] = "done"]
                    /\ UNCHANGED <<calls, approvalResp, cancelResp>>

\* The callback of the approval call: (err, httpResponse, body) => {...}.
\* A TypeError of the network-cancel check is raised in the catch block,
\* inside no try: nothing is rendered, no network cancel is sent, and the
\* exception ends the Node process (Down), so that no callback of any other
\* request runs any more.
ApprovalResponse(c, r) ==
    /\ ~Down
    /\ pc[c] = "approving"
    /\ UNCHANGED <<disconnected, pages, sent, inputs, outputs, sh>>
    /\ r \in Outcomes(calls[c][Len(calls[c])])
    /\ approvalResp' = [approvalResp EXCEPT ![c] = <<r>>]
    /\ log' = [log EXCEPT ![c] = @ \o ApprovalResponseLog(body[c], r)]
    /\ UNCHANGED <<body, built, cancelResp, now>>
    /\ IF ~Caught(r)
       THEN /\ rendered' = [rendered EXCEPT ![c] =
                    Append(@, ParsedResult(ResultFields(JsonParse(JsonCode(r))), body[c]))]
            /\ events' = [events EXCEPT ![c] = @ \o <<"approvalCompleted", "rendered">>]
            /\ pc' = [pc EXCEPT ![c] = "done"]
            /\ UNCHANGED calls
       ELSE IF NetCancelCheckThrows(body[c])
       THEN /\ events' = [events EXCEPT ![c] = @ \o <<"approvalCompleted", "uncaught">>]
            /\ pc' = [pc EXCEPT ![c] = "thrown"]
            /\ UNCHANGED <<calls, rendered>>
       ELSE /\ rendered' = [rendered EXCEPT ![c] = Append(@, ApprovalErrorResult(body[c]))]
            /\ IF NetCancelCheck(body[c])
               THEN /\ calls' = [calls EXCEPT ![c] =
                                    Append(@, NetCancelCall(body[c], built[c][1]))]
                    /\ events' = [events EXCEPT ![c] =
                                    @ \o <<"approvalCompleted", "cancelIssued", "rendered">>]
                    /\ pc' = [pc EXCEPT ![c] = "cancelling"]
               ELSE /\ events' = [events EXCEPT ![c] =
                                    @ \o <<"approvalCompleted", "rendered">>]
                    /\ pc' = [pc EXCEPT ![c] = "done"]
                    /\ UNCHANGED calls

\* A network-cancel callback that sends the call again after an error.
NetCancelResponse_Retry(c, r) ==
    /\ ~Down
    /\ pc[c] = "cancelling"
    /\ UNCHANGED <<disconnected, pages, sent, inputs, outputs, sh>>
    /\ r \in NetCancelOutcomes(calls[c][Len(calls[c])])
    /\ cancelResp' = [cancelResp EXCEPT ![c] = <<r>>]
    /\ log' = [log EXCEPT ![c] = @ \o NetCancelResponseLog(r)]
    /\ IF r.err
       THEN /\ calls' = [calls EXCEPT ![c] =
                            Append(@, NetCancelCall(body[c], built[c][1]))]
            /\ events' = [events EXCEPT ![c] = @ \o <<"cancelCompleted", "cancelIssued">>]
            /\ UNCHANGED pc
       ELSE /\ pc' = [pc EXCEPT ![c] = "done"]
            /\ events' = [events EXCEPT ![c] = Append(@, "cancelCompleted")]
            /\ UNCHANGED calls
    /\ UNCHANGED <<body, built, approvalResp, rendered, now>>

\* A network-cancel callback that renders the outcome of the call.
NetCancelResponse_RenderOutcome(c, r) ==
    /\ ~Down
    /\ pc[c] = "cancelling"
    /\ UNCHANGED <<disconnected, pages, sent, inputs, outputs, sh>>
    /\ r \in NetCancelOutcomes(calls[c][Len(calls[c])])
    /\ cancelResp' = [cancelResp EXCEPT ![c] = <<r>>]
    /\ pc' = [pc EXCEPT ![c] = "done"]
    /\ events' = [events EXCEPT ![c] = Append(@, "cancelCompleted")]
    /\ log' = [log EXCEPT ![c] = @ \o NetCancelResponseLog(r)]
    /\ rendered' = [rendered EXCEPT ![c] =
            IF r.err THEN <<ServerErrorResult>> ELSE @]
    /\ UNCHANGED <<body, built, calls, approvalResp, now>>

\* The callback of the network-cancel call: its result is logged.
NetCancelResponse(c, r) ==
    /\ ~Down
    /\ pc[c] = "cancelling"
    /\ UNCHANGED <<disconnected, pages, sent, inputs, outputs, sh>>
    /\ r \in NetCancelOutcomes(calls[c][Len(calls[c])])
    /\ cancelResp' = [cancelResp EXCEPT ![c] = <<r>>]
    /\ pc' = [pc EXCEPT ![c] = "done"]
    /\ events' = [events EXCEPT ![c] = Append(@, "cancelCompleted")]
    /\ log' = [log EXCEPT ![c] = @ \o NetCancelResponseLog(r)]
    /\ UNCHANGED <<body, built, calls, approvalResp, rendered, now>>

\* The URLs that app.get("/") serves: the path, with or without a query.
RootUrls == {"/", "/?a=1"}

\* A URL no route serves.
OtherUrls == {"/nothing"}

\* The body of a GET request: body-parser parses one on any method.
GetBodies == {NoBody, [a |-> Str("1")]}

\* What app.get('/close') sends.
CloseScript ==
    "<script language=\"javascript\" type=\"text/javascript\" src=\"https://stdpay.inicis.com/stdjs/INIStdPay_close.js\" charset=\"UTF-8\"></script>"

\* app.get("/"): the payment request page, after the logging middleware.
RequestPage(url, b) ==
    /\ ~Down
    /\ Len(pages) + Len(sent) < MaxPages
    /\ pages' = Append(pages, PageParams(now))
    /\ log' = [log EXCEPT !["page"] = @ \o MiddlewareLog("GET", url, b)]
    /\ UNCHANGED <<pc, body, built, calls, approvalResp, cancelResp, rendered,
                   events, now, disconnected, sent, inputs, outputs, sh>>

\* app.get('/close'): the script that closes the payment window, after the
\* logging middleware.
ClosePage(b) ==
    /\ ~Down
    /\ Len(pages) + Len(sent) < MaxPages
    /\ sent' = Append(sent, [url |-> "/close", status |-> 200, text |-> CloseScript])
    /\ log' = [log EXCEPT !["page"] = @ \o MiddlewareLog("GET", "/close", b)]
    /\ UNCHANGED <<pc, body, built, calls, approvalResp, cancelResp, rendered,
                   events, now, disconnected, pages, inputs, outputs, sh>>

\* The page Express sends when no route takes a GET request.
NotFoundPage(url) ==
    "<!DOCTYPE html>\n<html lang=\"en\">\n<head>\n<meta charset=\"utf-8\">\n<title>Error</title>\n</head>\n<body>\n<pre>Cannot GET "
    \o url \o "</pre>\n</body>\n</html>\n"

\* A GET of a URL that has no route: the logging middleware runs, then
\* Express answers 404 with its error page.
NotFound(url, b) ==
    /\ ~Down
    /\ Len(pages) + Len(sent) < MaxPages
    /\ sent' = Append(sent, [url |-> url, status |-> 404, text |-> NotFoundPage(url)])
    /\ log' = [log EXCEPT !["page"] = @ \o MiddlewareLog("GET", url, b)]
    /\ UNCHANGED <<pc, body, built, calls, approvalResp, cancelResp, rendered,
                   events, now, disconnected, pages, inputs, outputs, sh>>

\* The PG answers a call of a request whose server process has ended: the
\* call had been sent, the answer reaches no response callback, nothing is
\* rendered or logged for it.
AnswerAfterExit(c, r) ==
    /\ Down
    /\ pc[c] \in {"approving", "cancelling"}
    /\ IF pc[c] = "approving"
       THEN /\ r \in Outcomes(calls[c][Len(calls[c])])
            /\ approvalResp' = [approvalResp EXCEPT ![c] = <<r>>]
            /\ UNCHANGED cancelResp
       ELSE /\ r \in NetCancelOutcomes(calls[c][Len(calls[c])])
            /\ cancelResp' = [cancelResp EXCEPT ![c] = <<r>>]
            /\ UNCHANGED approvalResp
    /\ pc' = [pc EXCEPT ![c] = "lost"]
    /\ UNCHANGED <<body, built, calls, rendered, events, log, now,
                   disconnected, pages, sent, inputs, outputs, sh>>

\* The client of the inbound callback goes away while a call to the PG is in
\* flight. The handler listens to no close or aborted event of the request,
\* and the outbound call is not tied to the inbound connection.
Disconnect(c) ==
    /\ ~Down
    /\ pc[c] \in {"approving", "cancelling"}
    /\ ~disconnected[c]
    /\ disconnected' = [disconnected EXCEPT ![c] = TRUE]
    /\ UNCHANGED <<pc, body, built, calls, approvalResp, cancelResp, rendered,
                   events, log, now, pages, sent, inputs, outputs, sh>>

\* One callback is received and handled.
Next ==
    \/ Tick
    \/ \E b \in Payloads : Callback("cb1", b)
    \/ \E r \in {TransportError} \cup Responses : ApprovalResponse("cb1", r)
    \/ \E r \in CancelOutcomes : NetCancelResponse("cb1", r)
    \/ Disconnect("cb1")

Spec == Init /\ [][Next]_vars

\* The payment request page is served, and one callback is handled.
NextReq ==
    \/ Tick
    \/ \E url \in RootUrls : \E b \in GetBodies : RequestPage(url, b)
    \/ \E b \in GetBodies : ClosePage(b)
    \/ \E url \in OtherUrls : \E b \in GetBodies : NotFound(url, b)
    \/ \E b \in ConcPayloads : Callback("cb1", b)
    \/ \E r \in ConcResponses : ApprovalResponse("cb1", r)
    \/ \E r \in CancelOutcomes : NetCancelResponse("cb1", r)

SpecReq == Init /\ [][NextReq]_vars

\* Two callbacks are received and handled, their steps interleaved.
NextConc ==
    \/ Tick
    \/ \E c \in Callbacks : \E b \in ConcPayloads : Callback(c, b)
    \/ \E c \in Callbacks : \E r \in ConcResponses : ApprovalResponse(c, r)
    \/ \E c \in Callbacks : \E r \in CancelOutcomes : NetCancelResponse(c, r)
    \/ \E c \in Callbacks : \E r \in ConcResponses \cup CancelOutcomes :
          AnswerAfterExit(c, r)

SpecConc == Init /\ [][NextConc]_vars

\* Time passes whatever the PG does; nothing obliges the PG to answer a call,
\* and the handler arms no timer of its own (request.post is given no timeout).
LiveSpec == Init /\ [][Next]_vars /\ WF_vars(Tick)

(***************************************************************************)
(* Vocabulary of the properties.                                           *)
(***************************************************************************)
Handled(c) == pc[c] # "idle"

ApprovalCalls(c) == SelectSeq(calls[c], LAMBDA k : k.kind = "approval")

NetCancelCalls(c) == SelectSeq(calls[c], LAMBDA k : k.kind = "netCancel")

\* The approval call of c has completed with a response (no transport error).
Responded(c) == Len(approvalResp[c]) = 1 /\ ~approvalResp[c][1].err

\* The approval call of c has completed with a transport error.
Failed(c) == Len(approvalResp[c]) = 1 /\ approvalResp[c][1].err

\* The widget reported success.
Success(c) == Handled(c) /\ body[c].resultCode = Str("0000")

\* The one result rendered for c is a failure with the sentinel code.
RenderedSentinel(c) ==
    /\ Len(rendered[c]) = 1
    /\ rendered[c][1].resultCode = Str("9999")

\* An approval result that cannot be trusted: no response, a body that does
\* not parse to an object, or an object without resultCode.
Untrusted(r) ==
    \/ r.err
    \/ r.kind \in {"notJson", "empty", "jsonNull"}
    \/ r.kind = "jsonObject" /\ r.obj.resultCode = Undef

(***************************************************************************)
(* C1: a callback with resultCode "0000" whose authUrl is not the registry *)
(* approval URL of its idc_name causes no outbound call and is rendered as *)
(* a failure with resultCode '9999'.                                       *)
(***************************************************************************)
C1_MismatchNoCallAndSentinel ==
    \A c \in Callbacks :
        (Success(c) /\ body[c].authUrl # getAuthUrl(body[c].idc_name))
            => /\ calls[c] = <<>>
               /\ pc[c] = "done" => RenderedSentinel(c)

(***************************************************************************)
(* C2, as stated: a callback with resultCode "0000" whose authUrl is the  *)
(* registry approval URL of its idc_name causes exactly one approval call, *)
(* to the registry URL.                                                    *)
(***************************************************************************)
UrlMatches(c) ==
    /\ Success(c)
    /\ body[c].authUrl.t = "string"
    /\ body[c].authUrl = getAuthUrl(body[c].idc_name)

C2_MatchOneApprovalCall ==
    \A c \in Callbacks :
        UrlMatches(c)
            => /\ Len(ApprovalCalls(c)) = 1
               /\ ApprovalCalls(c)[1].uri = getAuthUrl(body[c].idc_name)

(***************************************************************************)
(* C2, amended: such a callback causes exactly one approval call unless    *)
(* its authToken has no string form, in which case it causes none and the  *)
(* status 500 failure is rendered; and every approval call of any callback *)
(* is addressed to the registry URL of its idc_name, whatever authUrl the  *)
(* callback carries.                                                       *)
(***************************************************************************)
C2_MatchOneApprovalCallUnlessThrow ==
    \A c \in Callbacks :
        /\ (UrlMatches(c) /\ ~ToStringThrows(body[c].authToken))
            => Len(ApprovalCalls(c)) = 1
        /\ (UrlMatches(c) /\ ToStringThrows(body[c].authToken))
            => /\ calls[c] = <<>>
               /\ rendered[c] = <<ServerErrorResult>>
        /\ Len(ApprovalCalls(c)) <= 1
        /\ \A i \in DOMAIN calls[c] :
            calls[c][i].kind = "approval"
                => calls[c][i].uri = getAuthUrl(body[c].idc_name)

C2_Witness ==
    \E c \in Callbacks :
        /\ UrlMatches(c)
        /\ pc[c] = "done"
        /\ Len(ApprovalCalls(c)) = 1
        /\ ApprovalCalls(c)[1].uri = Str(FcAuthUrl)

(***************************************************************************)
(* C3: when the approval call completes with a body that is not valid      *)
(* JSON, exactly one network-cancel call is made, to the registry's        *)
(* network-cancel URL, and the failure '9999' is rendered.                 *)
(***************************************************************************)
C3_NotJsonCompensated ==
    \A c \in Callbacks :
        (Responded(c) /\ approvalResp[c][1].kind \in {"notJson", "empty"})
            => /\ Len(NetCancelCalls(c)) = 1
               /\ NetCancelCalls(c)[1].uri = getNetCancel(body[c].idc_name)
               /\ RenderedSentinel(c)

(***************************************************************************)
(* C4: once the handler has rendered, a network-cancel call was attempted  *)
(* if and only if an approval call was made and its result could not be    *)
(* trusted.                                                                *)
(***************************************************************************)
C4_CancelIffUntrusted ==
    \A c \in Callbacks :
        pc[c] \in {"cancelling", "done"}
            => (Len(NetCancelCalls(c)) >= 1
                    <=> /\ Len(ApprovalCalls(c)) >= 1
                        /\ Len(approvalResp[c]) = 1
                        /\ Untrusted(approvalResp[c][1]))

(***************************************************************************)
(* C5: an approval response that parses but has no resultCode leads to a   *)
(* network-cancel call to the registry's network-cancel URL.               *)
(***************************************************************************)
C5_MissingResultCodeCompensated ==
    \A c \in Callbacks :
        (/\ Responded(c)
         /\ approvalResp[c][1].kind = "jsonObject"
         /\ approvalResp[c][1].obj.resultCode = Undef)
            => /\ Len(NetCancelCalls(c)) = 1
               /\ NetCancelCalls(c)[1].uri = getNetCancel(body[c].idc_name)

(***************************************************************************)
(* C6: a transport error of the approval call leads to a network-cancel    *)
(* call and to the rendered failure '9999', never to a parsed outcome.     *)
(***************************************************************************)
C6_TransportErrorCompensated ==
    \A c \in Callbacks :
        Failed(c)
            => /\ Len(NetCancelCalls(c)) = 1
               /\ rendered[c] = <<ApprovalErrorResult(body[c])>>

(***************************************************************************)
(* C7: the approval request of a callback is constructed only after its    *)
(* authUrl was found equal to the registry URL; a rejected callback has    *)
(* none.                                                                   *)
(***************************************************************************)
C7_RequestBuiltAfterUrlCheck ==
    \A c \in Callbacks :
        \A j \in DOMAIN events[c] :
            events[c][j] = "optionsBuilt"
                => \E i \in 1..(j - 1) : events[c][i] = "urlMatched"

(***************************************************************************)
(* C8: a callback whose resultCode is not exactly the string "0000" is     *)
(* declined: no outbound call, and one result whose eight fields are the   *)
(* callback's own.                                                         *)
(***************************************************************************)
C8_DeclinedPassThrough ==
    \A c \in Callbacks :
        (Handled(c) /\ body[c].resultCode # Str("0000"))
            => /\ pc[c] = "done"
               /\ calls[c] = <<>>
               /\ Len(rendered[c]) = 1
               /\ rendered[c][1].resultCode = body[c].resultCode
               /\ rendered[c][1].resultMsg = body[c].resultMsg
               /\ rendered[c][1].tid = body[c].tid
               /\ rendered[c][1].MOID = body[c].MOID
               /\ rendered[c][1].TotPrice = body[c].TotPrice
               /\ rendered[c][1].goodName = body[c].goodName
               /\ rendered[c][1].applDate = body[c].applDate
               /\ rendered[c][1].applTime = body[c].applTime

C8_Witness ==
    \E c \in Callbacks :
        /\ pc[c] = "done"
        /\ body[c].resultCode = Arr1("0000")
        /\ body[c].tid = Str("StdpayCARD01")
        /\ Len(rendered[c]) = 1
        /\ rendered[c][1].tid = Str("StdpayCARD01")

(***************************************************************************)
(* C9, as stated: an approval response that parses and has a resultCode is *)
(* rendered with the PG's resultCode and the PG's tid, and no network-     *)
(* cancel call is made.                                                    *)
(***************************************************************************)
C9_ParsedCarriesCodeAndTid ==
    \A c \in Callbacks :
        (/\ Responded(c)
         /\ approvalResp[c][1].kind = "jsonObject"
         /\ approvalResp[c][1].obj.resultCode # Undef)
            => /\ Len(rendered[c]) = 1
               /\ rendered[c][1].resultCode = approvalResp[c][1].obj.resultCode
               /\ rendered[c][1].tid = approvalResp[c][1].obj.tid
               /\ NetCancelCalls(c) = <<>>

(***************************************************************************)
(* C9, amended: an approval response that parses and has a non-empty       *)
(* resultCode is rendered with the PG's resultCode, and with the PG's tid  *)
(* when the response has a non-empty tid and 'N/A' when it has not; no     *)
(* network-cancel call is made.                                            *)
(***************************************************************************)
C9_ParsedCarriesCodeAndTidOrNA ==
    \A c \in Callbacks :
        (/\ Responded(c)
         /\ approvalResp[c][1].kind = "jsonObject"
         /\ approvalResp[c][1].obj.resultCode \notin {Undef, Str("")})
            => /\ Len(rendered[c]) = 1
               /\ rendered[c][1].resultCode = approvalResp[c][1].obj.resultCode
               /\ rendered[c][1].tid =
                    (IF approvalResp[c][1].obj.tid \in {Undef, Str("")}
                     THEN Str("N/A")
                     ELSE approvalResp[c][1].obj.tid)
               /\ NetCancelCalls(c) = <<>>

C9_Witness ==
    \E c \in Callbacks :
        /\ Responded(c)
        /\ approvalResp[c][1].kind = "jsonObject"
        /\ approvalResp[c][1].obj.resultCode = Str("0000")
        /\ approvalResp[c][1].obj.tid = Str("T1")
        /\ rendered[c][1].resultCode = Str("0000")
        /\ rendered[c][1].tid = Str("T1")
        /\ body[c].tid # Str("T1")

(***************************************************************************)
(* C10: a callback with resultCode "0000" whose idc_name the registry does *)
(* not know causes no outbound call and is rendered as a failure '9999',   *)
(* whatever its authUrl (an absent one included).                          *)
(***************************************************************************)
C10_UnknownIdcRejected ==
    \A c \in Callbacks :
        (/\ Success(c)
         /\ body[c].idc_name.t = "string"
         /\ getAuthUrl(body[c].idc_name) = Undef)
            => /\ calls[c] = <<>>
               /\ pc[c] = "done" => RenderedSentinel(c)

(***************************************************************************)
(* C11: every network-cancel call that is issued goes to the network-      *)
(* cancel URL the registry gives for the callback's idc_name; the          *)
(* netCancelUrl value the callback carries is compared, never sent to.     *)
(***************************************************************************)
C11_CancelTargetsRegistryUrl ==
    \A c \in Callbacks :
        \A i \in DOMAIN calls[c] :
            calls[c][i].kind = "netCancel"
                => calls[c][i].uri = getNetCancel(body[c].idc_name)

\* A network-cancel call was issued for a callback whose netCancelUrl value
\* is not the registry's string (it is an array that holds that string).
C11_Witness ==
    \E c \in Callbacks :
        /\ Len(NetCancelCalls(c)) = 1
        /\ body[c].netCancelUrl = Arr1(FcNetCancelUrl)
        /\ NetCancelCalls(c)[1].uri = Str(FcNetCancelUrl)

(***************************************************************************)
(* C12: when the approval response cannot be trusted and the callback's    *)
(* netCancelUrl is not the registry's, the handler ends with the failed    *)
(* compensation recorded: something is written about the compensation      *)
(* after the URL comparison (the only such statement is the result log of  *)
(* the network-cancel callback).                                           *)
(***************************************************************************)
CompensationRequired(c) ==
    Len(approvalResp[c]) = 1 /\ Caught(approvalResp[c][1])

CompensationOutcomeRecorded(c) ==
    \E i \in DOMAIN log[c] : log[c][i].line = 144

C12_UnmatchedCancelUrlRecorded ==
    \A c \in Callbacks :
        (/\ pc[c] = "done"
         /\ CompensationRequired(c)
         /\ body[c].netCancelUrl # getNetCancel(body[c].idc_name))
            => CompensationOutcomeRecorded(c)

(***************************************************************************)
(* C13: a callback issues at most one network-cancel call, whatever the    *)
(* outcome of that call.                                                   *)
(***************************************************************************)
C13_AtMostOneCancelCall ==
    \A c \in Callbacks : Len(NetCancelCalls(c)) <= 1

\* The one network-cancel call failed and the handler is finished.
C13_Witness ==
    \E c \in Callbacks :
        /\ pc[c] = "done"
        /\ Len(NetCancelCalls(c)) = 1
        /\ cancelResp[c] = <<TransportError>>

(***************************************************************************)
(* C14: an approval call that has not been answered when the timeout bound *)
(* has passed is treated as a parse failure: exactly one network-cancel    *)
(* call has been issued, '9999' is rendered and the handler has left the   *)
(* approving state.                                                        *)
(***************************************************************************)
ApprovalUnanswered(c) ==
    Len(ApprovalCalls(c)) = 1 /\ approvalResp[c] = <<>>

C14_ApprovalTimeoutCompensates ==
    \A c \in Callbacks :
        (ApprovalUnanswered(c) /\ now - built[c][1].timestamp > TimeoutTicks)
            => /\ Len(NetCancelCalls(c)) = 1
               /\ RenderedSentinel(c)
               /\ pc[c] # "approving"

(***************************************************************************)
(* C15: every callback that is received eventually reaches a terminal      *)
(* state with a result rendered, even if the PG never answers.             *)
(***************************************************************************)
C15_EveryCallbackRendered ==
    \A c \in Callbacks :
        Handled(c) ~> (pc[c] = "done" /\ Len(rendered[c]) = 1)

(***************************************************************************)
(* C16: on the approving path nothing is rendered while the approval call  *)
(* is pending; the render comes after the call's completion.               *)
(***************************************************************************)
Has(c, e) == \E i \in DOMAIN events[c] : events[c][i] = e

Precedes(c, e1, e2) ==
    \E i, j \in DOMAIN events[c] :
        i < j /\ events[c][i] = e1 /\ events[c][j] = e2

C16_NoRenderBeforeApprovalCompletes ==
    \A c \in Callbacks :
        /\ pc[c] = "approving" => rendered[c] = <<>>
        /\ (Has(c, "approvalIssued") /\ Has(c, "rendered"))
              => /\ Precedes(c, "approvalCompleted", "rendered")
                 /\ ~Precedes(c, "rendered", "approvalCompleted")

\* An approval call was issued and answered, and its result was rendered.
C16_Witness ==
    \E c \in Callbacks :
        /\ pc[c] = "done"
        /\ Len(ApprovalCalls(c)) = 1
        /\ Responded(c)
        /\ Len(rendered[c]) = 1
        /\ Precedes(c, "approvalIssued", "approvalCompleted")

(***************************************************************************)
(* C17: on the compensating path the failure result is rendered only after *)
(* the network-cancel call has completed and its outcome is recorded.      *)
(***************************************************************************)
C17_RenderAfterCancelCompletes ==
    \A c \in Callbacks :
        (Has(c, "cancelIssued") /\ Has(c, "rendered"))
            => /\ Precedes(c, "cancelCompleted", "rendered")
               /\ CompensationOutcomeRecorded(c)

(***************************************************************************)
(* C18: the result rendered on the compensating path does not depend on    *)
(* the outcome of the network-cancel call: two callbacks with the same     *)
(* payload, the same request and the same failed approval response have    *)
(* the same rendered result, '9999' with the approval-error message,       *)
(* whether their network-cancel call succeeded, failed or is unanswered.   *)
(***************************************************************************)
C18_RenderIndependentOfCancelOutcome ==
    \A c1, c2 \in Callbacks :
        (/\ CompensationRequired(c1)
         /\ Len(NetCancelCalls(c1)) = 1
         /\ body[c1] = body[c2]
         /\ built[c1] = built[c2]
         /\ approvalResp[c1] = approvalResp[c2])
            => /\ rendered[c1] = rendered[c2]
               /\ RenderedSentinel(c1)
               /\ rendered[c1][1].resultMsg = Str(MsgApprovalError)

\* Two such callbacks: the network-cancel call of one failed, the other's
\* succeeded.
C18_Witness ==
    \E c1, c2 \in Callbacks :
        /\ CompensationRequired(c1)
        /\ body[c1] = body[c2]
        /\ built[c1] = built[c2]
        /\ approvalResp[c1] = approvalResp[c2]
        /\ cancelResp[c1] = <<TransportError>>
        /\ cancelResp[c2] = <<NetCancelOk>>

(***************************************************************************)
(* C19: a result the handler makes up itself -- the URL mismatch branch,   *)
(* the approval catch branch, the outer catch, and the try branch when the *)
(* parsed approval response has no resultCode and the handler puts '9999'  *)
(* in its place -- has resultCode '9999' and one of the handler's four     *)
(* fixed messages, and no field of any rendered result is the text of an   *)
(* exception or transport error the handler caught (and logged).           *)
(***************************************************************************)
SynthesizedMessages ==
    {Str(MsgUrlMismatch), Str(MsgParseError), Str(MsgApprovalError),
     Str(MsgServerError)}

\* The try branch rendered with its fallback code: result.resultCode || '9999'
\* took the right operand.
FellBack(c) ==
    /\ Len(approvalResp[c]) = 1
    /\ ~Caught(approvalResp[c][1])
    /\ ~Truthy(ResultFields(JsonParse(JsonCode(approvalResp[c][1]))).resultCode)

Synthesized(c) ==
    \/ Has(c, "urlMismatch")
    \/ Has(c, "threw")
    \/ CompensationRequired(c)
    \/ FellBack(c)

CaughtTexts(c) ==
    {log[c][i].val : i \in {j \in DOMAIN log[c] : log[c][j].line \in {113, 135, 189}}}

RenderedFields ==
    {"resultCode", "resultMsg", "tid", "MOID", "TotPrice", "goodName",
     "applDate", "applTime"}

C19_SynthesizedResultsAreFixed ==
    \A c \in Callbacks :
        /\ (Synthesized(c) /\ rendered[c] # <<>>)
              => /\ RenderedSentinel(c)
                 /\ rendered[c][1].resultMsg \in SynthesizedMessages
        /\ \A i \in DOMAIN rendered[c] : \A f \in RenderedFields :
              rendered[c][i][f] \notin CaughtTexts(c)

(***************************************************************************)
(* C20: with two callbacks handled at the same time, under every           *)
(* interleaving, the calls and the rendered result of each callback are    *)
(* what its own payload, its own reading of the clock and the answers to   *)
(* its own calls determine.                                                *)
(***************************************************************************)
OwnCalls(b, timestamp, answers) ==
    IF IsSuccess(b) /\ ~BuildThrows(b) /\ UrlCheck(b)
    THEN <<ApprovalCall(b, Options(b, timestamp))>>
         \o (IF answers # <<>> /\ Caught(answers[1]) /\ NetCancelCheck(b)
             THEN <<NetCancelCall(b, Options(b, timestamp))>>
             ELSE <<>>)
    ELSE <<>>

OwnRendered(b, answers) ==
    IF ~IsSuccess(b) THEN <<DeclinedResult(b)>>
    ELSE IF BuildThrows(b) THEN <<ServerErrorResult>>
    ELSE IF ~UrlCheck(b) THEN <<MismatchResult(b)>>
    ELSE IF answers = <<>> THEN <<>>
    ELSE IF Caught(answers[1])
         THEN IF NetCancelCheckThrows(b) THEN <<>> ELSE <<ApprovalErrorResult(b)>>
    ELSE <<ParsedResult(ResultFields(JsonParse(JsonCode(answers[1]))), b)>>

C20_CallbacksIndependent ==
    \A c \in Callbacks :
        Handled(c)
            => /\ \E timestamp \in 0..now :
                     calls[c] = OwnCalls(body[c], timestamp, approvalResp[c])
               /\ rendered[c] = OwnRendered(body[c], approvalResp[c])

\* Two callbacks of different checkouts, received at different times, both
\* went through approval and compensation.
C20_Witness ==
    /\ \A c \in Callbacks : pc[c] = "done" /\ Len(NetCancelCalls(c)) = 1
    /\ body["cb1"].authToken # body["cb2"].authToken
    /\ built["cb1"][1].timestamp # built["cb2"][1].timestamp

(***************************************************************************)
(* C21: when the client of the callback has gone away while the approval   *)
(* call was in flight, the call still completes and an approval result     *)
(* that cannot be trusted is still followed by the network-cancel call.    *)
(***************************************************************************)
C21_DisconnectKeepsCompensation ==
    \A c \in Callbacks :
        (/\ disconnected[c]
         /\ Len(approvalResp[c]) = 1
         /\ Untrusted(approvalResp[c][1]))
            => Len(NetCancelCalls(c)) = 1

(***************************************************************************)
(* C22: no timestamp value is used by two requests: two payment request    *)
(* pages carry different timestamps, and so do the approval requests of    *)
(* two callbacks.                                                          *)
(***************************************************************************)
C22_TimestampsNeverReused ==
    /\ \A i, j \in DOMAIN pages :
          i # j => pages[i].timestamp # pages[j].timestamp
    /\ \A c1, c2 \in Callbacks :
          (c1 # c2 /\ built[c1] # <<>> /\ built[c2] # <<>>)
              => built[c1][1].timestamp # built[c2][1].timestamp

(***************************************************************************)
(* C23: in every approval request sent, signature is the digest over       *)
(* authToken, timestamp and verification the digest over authToken,        *)
(* signKey, timestamp, with the callback's token and the timestamp the     *)
(* request carries; the two differ from each other and from the digests of *)
(* the payment request pages.                                              *)
(***************************************************************************)
C23_ApprovalDigests ==
    \A c \in Callbacks : \A i \in DOMAIN calls[c] :
        LET f == calls[c][i].form
        IN  calls[c][i].kind = "approval"
              => /\ f.authToken = body[c].authToken
                 /\ f.signature =
                      Digest(<<<<"authToken", JsToString(f.authToken)>>,
                               <<"timestamp", NumToString(f.timestamp)>>>>)
                 /\ f.verification =
                      Digest(<<<<"authToken", JsToString(f.authToken)>>,
                               <<"signKey", SignKey>>,
                               <<"timestamp", NumToString(f.timestamp)>>>>)
                 /\ f.signature # f.verification
                 /\ \A k \in DOMAIN pages :
                      /\ f.signature \notin {pages[k].signature, pages[k].verification}
                      /\ f.verification \notin {pages[k].signature, pages[k].verification}

\* An approval request was sent at the clock value of a payment request page.
C23_Witness ==
    \E c \in Callbacks :
        /\ Len(ApprovalCalls(c)) = 1
        /\ Len(pages) >= 1
        /\ pages[1].timestamp = ApprovalCalls(c)[1].form.timestamp

(***************************************************************************)
(* C24: the network-cancel request of a callback carries the very fields   *)
(* of its approval request, and every outbound request has charset UTF-8   *)
(* and format JSON.                                                        *)
(***************************************************************************)
C24_CancelCarriesApprovalFields ==
    \A c \in Callbacks :
        /\ \A i \in DOMAIN calls[c] :
              /\ calls[c][i].form.charset = "UTF-8"
              /\ calls[c][i].form.format = "JSON"
        /\ Len(NetCancelCalls(c)) >= 1
              => /\ Len(ApprovalCalls(c)) = 1
                 /\ \A i \in DOMAIN NetCancelCalls(c) :
                      NetCancelCalls(c)[i].form = ApprovalCalls(c)[1].form

\* The network-cancel call was issued after the clock had moved on from the
\* timestamp of the approval request.
C24_Witness ==
    \E c \in Callbacks :
        /\ Len(NetCancelCalls(c)) = 1
        /\ now > ApprovalCalls(c)[1].form.timestamp

(***************************************************************************)
(* C25: the URL check passes only for an authUrl that is a string equal to *)
(* the registry's approval URL.                                            *)
(***************************************************************************)
C25_UrlCheckIsExactStringEquality ==
    \A c \in Callbacks :
        Has(c, "urlMatched")
            => /\ body[c].authUrl.t = "string"
               /\ body[c].authUrl = getAuthUrl(body[c].idc_name)

(***************************************************************************)
(* C26: the signing key leaves the server only inside digests: no field of *)
(* the page parameters, of an approval or network-cancel request or of a   *)
(* rendered result is the key itself.                                      *)
(***************************************************************************)
\* The value is an output of the SHA-256 digest, not a value in clear (the
\* hexadecimal form of the output is not represented).
IsDigest(d) == d.alg = "sha256"

C26_SignKeyNeverInClear ==
    /\ \A k \in DOMAIN pages :
          /\ SignKey \notin {pages[k].mid, pages[k].oid, pages[k].price,
                             pages[k].use_chkfake}
          /\ IsDigest(pages[k].mKey)
          /\ IsDigest(pages[k].signature)
          /\ IsDigest(pages[k].verification)
    /\ \A c \in Callbacks :
          /\ \A i \in DOMAIN calls[c] :
                LET f == calls[c][i].form
                IN  /\ SignKey \notin {f.mid.v, f.authToken.v, f.charset, f.format}
                    /\ IsDigest(f.signature)
                    /\ IsDigest(f.verification)
          /\ \A i \in DOMAIN rendered[c] : \A f \in RenderedFields :
                rendered[c][i][f].v # SignKey

\* A page was served, a request went to the PG and a result was rendered.
C26_Witness ==
    /\ Len(pages) >= 1
    /\ \E c \in Callbacks : Len(calls[c]) = 2 /\ Len(rendered[c]) = 1

(***************************************************************************)
(* C27: nothing written to the log holds the authToken of a callback (the  *)
(* statements that print an object with an authToken field are those of    *)
(* lines 24, 54 and 104).                                                  *)
(***************************************************************************)
TokenLogged(c) ==
    \E i \in DOMAIN log[c] :
        /\ log[c][i].line \in {24, 54, 104}
        /\ log[c][i].val.authToken = body[c].authToken

C27_NoTokenInLog ==
    \A c \in Callbacks :
        (Handled(c) /\ body[c].authToken # Undef) => ~TokenLogged(c)

(***************************************************************************)
(* C30: in every page the request builder renders, signature is the digest *)
(* over oid, price, timestamp and verification the digest over oid, price, *)
(* signKey, timestamp, of the oid, price and timestamp of that same page.  *)
(***************************************************************************)
C30_PaymentRequestConsistent ==
    \A k \in DOMAIN pages :
        LET q == pages[k]
        IN  /\ q.signature =
                 Digest(<<<<"oid", q.oid>>, <<"price", q.price>>,
                          <<"timestamp", NumToString(q.timestamp)>>>>)
            /\ q.verification =
                 Digest(<<<<"oid", q.oid>>, <<"price", q.price>>,
                          <<"signKey", SignKey>>,
                          <<"timestamp", NumToString(q.timestamp)>>>>)

\* Two pages served at different clock values.
C30_Witness ==
    /\ Len(pages) = 2
    /\ pages[1].timestamp # pages[2].timestamp

(***************************************************************************)
(* The repository scripts: each step runs one command or asks one          *)
(* question; the trace keeps the commands run, with their outcome, and the *)
(* answers given, in order.                                                *)
(***************************************************************************)
Exec(cmd, ok, out) == [kind |-> "exec", cmd |-> cmd, ok |-> ok, out |-> out]

Answer(a) == [kind |-> "answer", val |-> a]

\* What the user may type at a prompt: a line of text, kept as the sequence
\* of its characters.
Answers ==
    {<<"y">>, <<"Y">>, <<"y", "e", "s">>, <<"Y", "E", "S">>, <<"Y", "e", "s">>,
     <<"y", "E", "s">>, <<"n">>, <<"N">>, <<"N", "o">>, <<>>, <<"y", "y">>,
     <<" ", "y">>}

UpperCase ==
    <<"A", "B", "C", "D", "E", "F", "G", "H", "I", "J", "K", "L", "M",
      "N", "O", "P", "Q", "R", "S", "T", "U", "V", "W", "X", "Y", "Z">>

LowerCase ==
    <<"a", "b", "c", "d", "e", "f", "g", "h", "i", "j", "k", "l", "m",
      "n", "o", "p", "q", "r", "s", "t", "u", "v", "w", "x", "y", "z">>

\* The lower-case form of one character: that of a capital letter, any
\* other character of the answers as it is.
LowerChar(ch) ==
    IF \E i \in DOMAIN UpperCase : UpperCase[i] = ch
    THEN LowerCase[CHOOSE i \in DOMAIN UpperCase : UpperCase[i] = ch]
    ELSE ch

\* answer.toLowerCase()
ToLowerCase(a) == [i \in DOMAIN a |-> LowerChar(a[i])]

\* A test that takes every answer but "n" for a yes.
Confirmed_NotNo(a) == ToLowerCase(a) # <<"n">>

\* !(answer.toLowerCase() !== 'y' && answer.toLowerCase() !== 'yes')
Confirmed(a) == ToLowerCase(a) = <<"y">> \/ ToLowerCase(a) = <<"y", "e", "s">>

\* The step: the script moves to a position and the trace grows by an entry.
Step(to, entry) ==
    /\ sh' = [sh EXCEPT !.pc = to, !.trace = Append(@, entry)]
    /\ UNCHANGED serverVars

(***************************************************************************)
(* safeInitialPush.                                                        *)
(***************************************************************************)
InitPush ==
    /\ Idle
    /\ inputs = [kind |-> "none"]
    /\ outputs = <<>>
    /\ sh = [pc |-> "config", trace |-> <<>>]

\* git config --global --add safe.directory: a failure is ignored.
ConfigSafeDirectory(ok) ==
    /\ sh.pc = "config"
    /\ Step("status", Exec("git config --global --add safe.directory", ok, ""))

\* git status --porcelain: the script ends when it fails or prints nothing.
GitStatus(out) ==
    /\ sh.pc = "status"
    /\ Step(IF out = "changes" THEN "ask1" ELSE "closed",
            Exec("git status --porcelain", out # "failed", out))

\* The first prompt.
AnswerProceed(a) ==
    /\ sh.pc = "ask1"
    /\ Step(IF Confirmed(a) THEN "add" ELSE "closed", Answer(a))

\* git add . : the script ends when it fails.
GitAdd(ok) ==
    /\ sh.pc = "add"
    /\ Step(IF ok THEN "commit" ELSE "closed", Exec("git add .", ok, ""))

\* git commit: a failure is reported and the script goes on.
GitCommit(ok) ==
    /\ sh.pc = "commit"
    /\ Step("branch", Exec("git commit", ok, ""))

\* git branch --show-current
GitBranch(out) ==
    /\ sh.pc = "branch"
    /\ Step(IF out = "other" THEN "checkout" ELSE "ask2",
            Exec("git branch --show-current", out # "failed", out))

\* git checkout main, and git checkout -b main when that fails.
GitCheckout(ok) ==
    /\ sh.pc = "checkout"
    /\ Step(IF ok THEN "ask2" ELSE "checkoutNew", Exec("git checkout main", ok, ""))

GitCheckoutNew(ok) ==
    /\ sh.pc = "checkoutNew"
    /\ Step("ask2", Exec("git checkout -b main", ok, ""))

\* The second prompt.
AnswerPush(a) ==
    /\ sh.pc = "ask2"
    /\ Step(IF Confirmed(a) THEN "push" ELSE "closed", Answer(a))

\* git push -u origin main
GitPush(ok) ==
    /\ sh.pc = "push"
    /\ Step("closed", Exec("git push -u origin main", ok, ""))

NextPush ==
    \/ \E ok \in BOOLEAN : ConfigSafeDirectory(ok)
    \/ \E out \in {"failed", "", "changes"} : GitStatus(out)
    \/ \E a \in Answers : AnswerProceed(a)
    \/ \E ok \in BOOLEAN : GitAdd(ok)
    \/ \E ok \in BOOLEAN : GitCommit(ok)
    \/ \E out \in {"failed", "main", "other"} : GitBranch(out)
    \/ \E ok \in BOOLEAN : GitCheckout(ok)
    \/ \E ok \in BOOLEAN : GitCheckoutNew(ok)
    \/ \E a \in Answers : AnswerPush(a)
    \/ \E ok \in BOOLEAN : GitPush(ok)

SpecPush == InitPush /\ [][NextPush]_vars

(***************************************************************************)
(* setupUnifiedDevRepo.  fs holds what exists on disk: the .git directory  *)
(* of mcp-pg-payment, the .git directory of the root, the backup folder    *)
(* and the backup copy of the mcp-pg-payment history.                      *)
(***************************************************************************)
FileSystems ==
    [mcpGit : BOOLEAN, rootGit : BOOLEAN, backupDir : BOOLEAN, backupCopy : {FALSE}]

StepFs(to, entry, f) ==
    /\ sh' = [pc |-> to, trace |-> Append(sh.trace, entry), fs |-> f]
    /\ UNCHANGED serverVars

InitSetup ==
    /\ Idle
    /\ inputs = [kind |-> "none"]
    /\ outputs = <<>>
    /\ \E f \in FileSystems : sh = [pc |-> "ask1", trace |-> <<>>, fs |-> f]

\* Where the script goes once the backup part is over: the removal of the
\* root .git, of the mcp-pg-payment .git, each only if it exists, then git init.
AfterBackup(f) ==
    IF f.rootGit THEN "rmRoot" ELSE IF f.mcpGit THEN "rmMcp" ELSE "init"

\* The first prompt.
SetupProceed(a) ==
    /\ sh.pc = "ask1"
    /\ Step(IF Confirmed(a) THEN "chdir" ELSE "closed", Answer(a))

\* process.chdir('C:\dev'), then the test for the mcp-pg-payment history.
Chdir(ok) ==
    /\ sh.pc = "chdir"
    /\ Step(IF ~ok THEN "closed"
            ELSE IF sh.fs.mcpGit THEN "askBackup" ELSE AfterBackup(sh.fs),
            Exec("chdir", ok, ""))

\* The backup prompt.
AnswerBackup(a) ==
    /\ sh.pc = "askBackup"
    /\ Step(IF ~Confirmed(a) THEN AfterBackup(sh.fs)
            ELSE IF sh.fs.backupDir THEN "xcopy" ELSE "mkdir",
            Answer(a))

\* fs.mkdirSync('backup'): a failure is caught with the backup's.
MakeBackupDir(ok) ==
    /\ sh.pc = "mkdir"
    /\ StepFs(IF ok THEN "xcopy" ELSE AfterBackup(sh.fs),
              Exec("mkdir backup", ok, ""),
              [sh.fs EXCEPT !.backupDir = ok])

\* xcopy of the history: a failure is reported and the script goes on.
Xcopy(ok) ==
    /\ sh.pc = "xcopy"
    /\ StepFs(AfterBackup(sh.fs),
              Exec("xcopy mcp-pg-payment .git", ok, ""),
              [sh.fs EXCEPT !.backupCopy = ok])

\* rmdir /s /q .git
RemoveRootGit(ok) ==
    /\ sh.pc = "rmRoot"
    /\ LET f == [sh.fs EXCEPT !.rootGit = ~ok]
       IN  StepFs(IF ~ok THEN "closed" ELSE AfterBackup(f),
                  Exec("rmdir .git", ok, ""), f)

\* rmdir /s /q "mcp-pg-payment\.git"
RemoveMcpGit(ok) ==
    /\ sh.pc = "rmMcp"
    /\ StepFs(IF ok THEN "init" ELSE "closed",
              Exec("rmdir mcp-pg-payment .git", ok, ""),
              [sh.fs EXCEPT !.mcpGit = ~ok])

\* git init
GitInit(ok) ==
    /\ sh.pc = "init"
    /\ StepFs(IF ok THEN "configure" ELSE "closed",
              Exec("git init", ok, ""),
              [sh.fs EXCEPT !.rootGit = ok])

\* git config user.name / user.email: a failure is reported.
ConfigureUser(ok) ==
    /\ sh.pc = "configure"
    /\ Step("write", Exec("git config user", ok, ""))

\* .gitignore and README.md are written.
WriteFiles(ok) ==
    /\ sh.pc = "write"
    /\ Step(IF ok THEN "remote" ELSE "closed", Exec("writeFileSync", ok, ""))

\* git remote add origin: a failure is reported.
RemoteAdd(ok) ==
    /\ sh.pc = "remote"
    /\ Step("ask3", Exec("git remote add origin", ok, ""))

\* The commit prompt.
AnswerCommit(a) ==
    /\ sh.pc = "ask3"
    /\ Step(IF Confirmed(a) THEN "commitAll" ELSE "closed", Answer(a))

\* git add . and git commit, in one try block.
CommitAll(ok) ==
    /\ sh.pc = "commitAll"
    /\ Step("closed", Exec("git add . ; git commit", ok, ""))

NextSetup ==
    \/ \E a \in Answers : SetupProceed(a)
    \/ \E ok \in BOOLEAN : Chdir(ok)
    \/ \E a \in Answers : AnswerBackup(a)
    \/ \E ok \in BOOLEAN : MakeBackupDir(ok)
    \/ \E ok \in BOOLEAN : Xcopy(ok)
    \/ \E ok \in BOOLEAN : RemoveRootGit(ok)
    \/ \E ok \in BOOLEAN : RemoveMcpGit(ok)
    \/ \E ok \in BOOLEAN : GitInit(ok)
    \/ \E ok \in BOOLEAN : ConfigureUser(ok)
    \/ \E ok \in BOOLEAN : WriteFiles(ok)
    \/ \E ok \in BOOLEAN : RemoteAdd(ok)
    \/ \E a \in Answers : AnswerCommit(a)
    \/ \E ok \in BOOLEAN : CommitAll(ok)

SpecSetup == InitSetup /\ [][NextSetup]_vars

(***************************************************************************)
(* C31: the mKey of a payment request page is the digest over the single   *)
(* field signKey, built like the other digests from name=value.            *)
(***************************************************************************)
C31_MKeyIsFieldDigest ==
    \A k \in DOMAIN pages : pages[k].mKey = Digest(<<<<"signKey", SignKey>>>>)

\* C31, as the code has it: the mKey of a payment request page is SHA-256 of
\* the signKey string alone, without a field name.
C31_MKeyIsHashOfKeyAlone ==
    \A k \in DOMAIN pages :
        /\ pages[k].mKey = Sha256Hex(SignKey)
        /\ pages[k].mKey # Digest(<<<<"signKey", SignKey>>>>)

\* A page was served; what its mKey hashes is the key.
C31_Witness ==
    /\ Len(pages) >= 1
    /\ pages[1].mKey.input = SignKey

(***************************************************************************)
(* C32: a network-cancel call is issued only after an approval call of the *)
(* same callback was issued and has completed; a declined or rejected      *)
(* callback issues none.                                                   *)
(***************************************************************************)
C32_CancelOnlyAfterApprovalCompleted ==
    \A c \in Callbacks :
        /\ Len(NetCancelCalls(c)) >= 1
              => /\ calls[c][1].kind = "approval"
                 /\ Len(approvalResp[c]) = 1
                 /\ Precedes(c, "approvalIssued", "approvalCompleted")
                 /\ Precedes(c, "approvalCompleted", "cancelIssued")
        /\ (Has(c, "declined") \/ Has(c, "urlMismatch") \/ Has(c, "threw"))
              => NetCancelCalls(c) = <<>>

\* A network-cancel call was issued, after the approval call had failed.
C32_Witness ==
    \E c \in Callbacks :
        /\ Len(NetCancelCalls(c)) = 1
        /\ Failed(c)
        /\ Has(c, "cancelIssued")

(***************************************************************************)
(* C33: a callback is answered with at most one rendered result and makes  *)
(* at most one approval call.                                              *)
(***************************************************************************)
C33_AtMostOneRenderAndApproval ==
    \A c \in Callbacks :
        /\ Len(rendered[c]) <= 1
        /\ Len(ApprovalCalls(c)) <= 1
        /\ Cardinality({i \in DOMAIN events[c] : events[c][i] = "rendered"}) <= 1

\* The failure branch rendered, after the parse of an empty answer failed.
C33_Witness ==
    \E c \in Callbacks :
        /\ pc[c] = "done"
        /\ Responded(c)
        /\ CompensationRequired(c)
        /\ Len(rendered[c]) = 1
        /\ Len(ApprovalCalls(c)) = 1

(***************************************************************************)
(* C34: on the parsed path each rendered field is the PG response's field  *)
(* when it is there and not empty; otherwise resultCode is '9999', tid,    *)
(* goodName, applDate and applTime are 'N/A', MOID and TotPrice are the    *)
(* callback's oid and price; every rendered field is defined.              *)
(***************************************************************************)
Present(x) == x.t = "string" /\ x.v # ""

ParsedPath(c) == Len(approvalResp[c]) = 1 /\ ~Caught(approvalResp[c][1])

C34_ParsedFieldsOrFallbacks ==
    \A c \in Callbacks :
        ParsedPath(c) =>
            LET r == ResultFields(JsonParse(JsonCode(approvalResp[c][1])))
                out == rendered[c][1]
            IN  /\ \A f \in RenderedFields : Present(r[f]) => out[f] = r[f]
                /\ ~Present(r.resultCode) => out.resultCode = Str("9999")
                /\ \A f \in {"tid", "goodName", "applDate", "applTime"} :
                      ~Present(r[f]) => out[f] = Str("N/A")
                /\ ~Present(r.MOID) => out.MOID = body[c].oid
                /\ ~Present(r.TotPrice) => out.TotPrice = body[c].price
                /\ \A f \in RenderedFields : out[f] # Undef

(***************************************************************************)
(* C35: a synchronous exception in the handler is answered with status 500 *)
(* and resultCode '9999', with no call issued; every other path answers    *)
(* with another status.                                                    *)
(***************************************************************************)
C35_ExceptionIs500 ==
    \A c \in Callbacks :
        /\ Has(c, "threw")
              => /\ Len(rendered[c]) = 1
                 /\ rendered[c][1].status = StatusServerError
                 /\ rendered[c][1].resultCode = Str("9999")
                 /\ calls[c] = <<>>
        /\ ~Has(c, "threw")
              => \A i \in DOMAIN rendered[c] :
                     rendered[c][i].status # StatusServerError

\* The conversion of a callback value threw and the outer catch answered.
C35_Witness ==
    \E c \in Callbacks :
        /\ Has(c, "threw")
        /\ BuildThrows(body[c])
        /\ Len(rendered[c]) = 1

ChangingCommands ==
    {"git add .", "git commit", "git checkout main", "git checkout -b main",
     "git push -u origin main"}

Changes(e) == e.kind = "exec" /\ e.cmd \in ChangingCommands

\* The answers that say y or yes, in whatever case.
YesAnswers ==
    {<<"y">>, <<"Y">>, <<"y", "e", "s">>, <<"Y", "E", "S">>, <<"Y", "e", "s">>,
     <<"y", "E", "s">>}

Stops(e) ==
    \/ e.kind = "answer" /\ e.val \notin YesAnswers
    \/ e.kind = "exec" /\ e.cmd = "git status --porcelain" /\ e.out # "changes"

YesBefore(j) ==
    Cardinality({i \in 1..(j - 1) :
        sh.trace[i].kind = "answer" /\ sh.trace[i].val \in YesAnswers})

C37_PushOnlyAfterConfirmations ==
    \A j \in DOMAIN sh.trace :
        LET e == sh.trace[j]
        IN  /\ (e.kind = "exec" /\ e.cmd \in {"git add .", "git commit"})
                  => YesBefore(j) >= 1
            /\ (e.kind = "exec" /\ e.cmd = "git push -u origin main")
                  => YesBefore(j) = 2
            /\ Changes(e) => \A i \in 1..(j - 1) : ~Stops(sh.trace[i])

\* Both prompts were answered yes (in capitals) and the push was run.
C37_Witness ==
    /\ sh.pc = "closed"
    /\ \E j \in DOMAIN sh.trace :
          sh.trace[j].kind = "exec" /\ sh.trace[j].cmd = "git push -u origin main"
    /\ \E j \in DOMAIN sh.trace : sh.trace[j] = Answer(<<"Y", "e", "s">>)

(***************************************************************************)
(* C38: the setup script removes the .git directory of mcp-pg-payment only *)
(* after a backup copy of it was created successfully; when the user       *)
(* declines the backup, or the copy fails, the history is not deleted.     *)
(***************************************************************************)
C38_HistoryRemovedOnlyAfterBackup ==
    \A j \in DOMAIN sh.trace :
        sh.trace[j] = Exec("rmdir mcp-pg-payment .git", TRUE, "")
            => \E i \in 1..(j - 1) :
                   sh.trace[i] = Exec("xcopy mcp-pg-payment .git", TRUE, "")

====
